---- MODULE Spec2Model ----
(***************************************************************************)
(* CLIME: the bLIMEy local surrogate explainer (clime/explainer/BLIMEY.py) *)
(* and the fidelity metrics (clime/evaluation/faithfulness.py).            *)
(*                                                                         *)
(* Numbers are exact rationals <<n, d>> (d > 0, lowest terms), so that two *)
(* scores are equal exactly when the tuples are equal.  Feature vectors    *)
(* have one component; a dataset is a record [X, y, has_y] whose X and y   *)
(* are sequences indexed by row.                                           *)
(***************************************************************************)
EXTENDS Integers, Sequences, FiniteSets

VARIABLES
    black_box_model,   \* the classifier under explanation (its decision threshold)
    surrogate,         \* SpecFid: the explainer object handed to the metrics
    data,              \* SpecFid: the evaluation dataset
    eval_query_point,  \* SpecFid: the query point handed to the local metrics
    score,             \* SpecFid: what each metric returned, once called
    np_random_state,   \* Spec: numpy's process-wide random generator state
    args,              \* Spec: the arguments every bLIMEy(...) call is given
    lime,              \* Spec: the bLIMEy instance built last
    runs,              \* Spec: what each construction so far drew and explained
    out                \* Spec: the last call on the instance and its return value

fid_vars == <<black_box_model, surrogate, data, eval_query_point, score>>
expl_vars == <<np_random_state, args, lime, runs, out>>
vars == <<black_box_model, surrogate, data, eval_query_point, score,
          np_random_state, args, lime, runs, out>>

(***************************************************************************)
(* Bounds of the model.                                                    *)
(***************************************************************************)
MaxRows == 3        \* rows of an evaluation dataset
KernelBits == 6     \* fraction bits of a kernel value; smaller values are 0
MaxSamples == 3     \* largest sample count given to bLIMEy
MaxSeed == 3        \* largest generator state the process starts in
MaxConstructions == 2   \* bLIMEy(...) calls in one process
FeatureGrid == {0, 1, 3}
QueryPoints == {0, 1}
BlackBoxThresholds == {1, 2}

(***************************************************************************)
(* Exact rational arithmetic.                                              *)
(***************************************************************************)
RECURSIVE GCD(_, _)
GCD(a, b) == IF b = 0 THEN a ELSE GCD(b, a % b)

Abs(n) == IF n < 0 THEN -n ELSE n

Rat(n, d) ==
    LET s == IF d < 0 THEN -1 ELSE 1
        g == GCD(Abs(n), Abs(d))
    IN  <<(s * n) \div g, (s * d) \div g>>

Zero == <<0, 1>>
One == <<1, 1>>
Half == <<1, 2>>
RInt(n) == <<n, 1>>
RAdd(a, b) == Rat(a[1] * b[2] + b[1] * a[2], a[2] * b[2])
RSub(a, b) == Rat(a[1] * b[2] - b[1] * a[2], a[2] * b[2])
RMul(a, b) == Rat(a[1] * b[1], a[2] * b[2])
RDiv(a, b) == Rat(a[1] * b[2], a[2] * b[1])
RNeg(a) == <<-a[1], a[2]>>
RLe(a, b) == a[1] * b[2] <= b[1] * a[2]
RLt(a, b) == a[1] * b[2] < b[1] * a[2]

RECURSIVE Pow2(_)
Pow2(k) == IF k = 0 THEN 1 ELSE 2 * Pow2(k - 1)

RECURSIVE RSum(_)
RSum(s) == IF Len(s) = 0 THEN Zero ELSE RAdd(s[1], RSum(Tail(s)))

\* An array holds its elements (a function expression alone would be
\* computed again at every use).
Arr(s) == s \o <<>>

Ones(n) == Arr([i \in 1..n |-> One])
Times(a, b) == Arr([i \in 1..Len(a) |-> RMul(a[i], b[i])])
AsFloat(X) == Arr([i \in 1..Len(X) |-> RInt(X[i])])
Count(s, c) == Cardinality({i \in 1..Len(s) : s[i] = c})

(***************************************************************************)
(* What a call returns or raises.  Python's sum() of an empty array is the *)
(* int 0, and int/int by zero raises ZeroDivisionError; a non-empty array  *)
(* sums to a numpy scalar, and numpy's 0/0 is nan (x/0 is inf).            *)
(***************************************************************************)
Value(r) == [kind |-> "value", val |-> r]
NaN == [kind |-> "nan", val |-> Zero]
Inf == [kind |-> "inf", val |-> Zero]
Raise(exc) == [kind |-> exc, val |-> Zero]
ArithmeticErrors == {"ZeroDivisionError", "OverflowError", "FloatingPointError"}

Quotient(num, den, n) ==
    IF n = 0 THEN Raise("ZeroDivisionError")
    ELSE IF den = Zero THEN (IF num = Zero THEN NaN ELSE Inf)
    ELSE Value(RDiv(num, den))

(***************************************************************************)
(* The black box: a binary classifier with predict and predict_proba.      *)
(* Its class-1 probability rises in steps around its threshold t, and      *)
(* predict is the more probable class.                                     *)
(***************************************************************************)
bb_proba1(t, x) ==
    IF x <= t - 2 THEN Zero
    ELSE IF x = t - 1 THEN <<1, 4>>
    ELSE IF x = t THEN <<3, 4>>
    ELSE One

bb_predict_proba(t, X) ==
    Arr([i \in 1..Len(X) |-> <<RSub(One, bb_proba1(t, X[i])), bb_proba1(t, X[i])>>])

bb_predict(t, X) ==
    Arr([i \in 1..Len(X) |-> IF RLt(Half, bb_proba1(t, X[i])) THEN 1 ELSE 0])

(***************************************************************************)
(* clime.data.costs                                                        *)
(***************************************************************************)
\* The exponential kernel of the squared distance, in a number format with
\* KernelBits fraction bits: it is 1 at distance 0, decreases with the
\* distance, and is exactly 0 once it falls below the format's resolution
\* (as exp() is for a float64 beyond its range).
kernel(d2) == Rat(Pow2(KernelBits) \div Pow2(d2), Pow2(KernelBits))

weights_based_on_distance(query_point, X) ==
    Arr([i \in 1..Len(X) |-> kernel((X[i] - query_point) * (X[i] - query_point))])

\* One weight per observed class, in the order of the sorted class labels:
\* n_samples / (n_classes * count of the class).
weight_based_on_class_imbalance(d) ==
    LET classes == {c \in {0, 1} : Count(d.y, c) > 0}
        sorted == IF classes = {0, 1} THEN <<0, 1>>
                  ELSE IF classes = {0} THEN <<0>>
                  ELSE IF classes = {1} THEN <<1>> ELSE <<>>
    IN  Arr([i \in 1..Len(sorted) |->
            Rat(Len(d.y), Cardinality(classes) * Count(d.y, sorted[i]))])

(***************************************************************************)
(* bLIMEy.predict: the surrogate is a linear model with one coefficient    *)
(* row and one intercept per target column (column 1 is class 0, column 2  *)
(* is class 1: TLA+ sequences count from 1).                               *)
(***************************************************************************)
surrogate_predict(model, X) ==
    Arr([i \in 1..Len(X) |->
        [k \in 1..2 |-> RAdd(model.intercept_[k], RMul(model.coef_[k][1], X[i]))]])

heaviside(x, h0) == IF RLt(x, Zero) THEN 0 ELSE IF x = Zero THEN h0 ELSE 1

\* predict with the threshold value itself on the 0 side.
predict_strict(model, X) ==
    LET probability_class_1 == Arr([i \in 1..Len(X) |-> surrogate_predict(model, X)[i][2]])
    IN  Arr([i \in 1..Len(X) |-> heaviside(RSub(probability_class_1[i], Half), 0)])

predict(model, X) ==
    LET probability_class_1 == Arr([i \in 1..Len(X) |-> surrogate_predict(model, X)[i][2]])
    IN  Arr([i \in 1..Len(X) |-> heaviside(RSub(probability_class_1[i], Half), 1)])

(***************************************************************************)
(* numpy, as bLIMEy uses it.                                               *)
(***************************************************************************)
\* np.round: to the nearest integer, a tie to the even one.
np_round(r) ==
    LET f == r[1] \div r[2]
        frac == RSub(r, RInt(f))
    IN  IF RLt(frac, Half) THEN f
        ELSE IF RLt(Half, frac) THEN f + 1
        ELSE IF f % 2 = 0 THEN f ELSE f + 1

\* np.cov of one feature: the unbiased sample variance.
np_cov(X) ==
    LET n == Len(X)
        mean == RDiv(RSum(AsFloat(X)), RInt(n))
        sq == Arr([i \in 1..n |-> RMul(RSub(RInt(X[i]), mean), RSub(RInt(X[i]), mean))])
    IN  RDiv(RSum(sq), RInt(n - 1))

\* np.eye(len(query_point)) for one feature.
np_eye == One

\* The process-wide generator: each deviate advances its state.  A deviate
\* is one of -1, 0, 1 and a sample lies that many spreads from the mean,
\* the spread growing with the covariance (its integer ceiling).
RngNext(state) == (5 * state + 3) % 8

RECURSIVE RngAfter(_, _)
RngAfter(state, n) == IF n = 0 THEN state ELSE RngAfter(RngNext(state), n - 1)

Deviate(state) == (state % 3) - 1
Spread(cov) == (cov[1] + cov[2] - 1) \div cov[2]

multivariate_normal(state, mean, cov, size) ==
    Arr([i \in 1..size |-> mean + Deviate(RngAfter(state, i)) * Spread(cov)])

(***************************************************************************)
(* clime.data.balance_oversample: rows of the minority class are repeated, *)
(* in order, until both classes have the same count.  A neighbourhood of   *)
(* one class has no minority row to repeat and is returned as it is.       *)
(***************************************************************************)
RECURSIVE RowsOf(_, _, _)
RowsOf(y, c, i) ==
    IF i > Len(y) THEN <<>>
    ELSE IF y[i] = c THEN <<i>> \o RowsOf(y, c, i + 1)
    ELSE RowsOf(y, c, i + 1)

balance_oversample(sd) ==
    LET n0 == Count(sd.y, 0)
        n1 == Count(sd.y, 1)
        minority == IF n0 < n1 THEN 0 ELSE 1
        rows == RowsOf(sd.y, minority, 1)
        deficit == Abs(n0 - n1)
        extra == Arr([j \in 1..deficit |-> rows[((j - 1) % Len(rows)) + 1]])
    IN  IF n0 = 0 \/ n1 = 0 \/ n0 = n1 THEN sd
        ELSE [X |-> sd.X \o Arr([j \in 1..deficit |-> sd.X[extra[j]]]),
              y |-> sd.y \o Arr([j \in 1..deficit |-> sd.y[extra[j]]])]

(***************************************************************************)
(* sklearn.linear_model.Ridge(alpha, fit_intercept=True).fit(X, Y,         *)
(* sample_weight): per target column, the weighted least squares line on   *)
(* the weighted-centred data, its slope shrunk by alpha.                   *)
(***************************************************************************)
RidgeAlpha == 1

ridge_column(X, yk, w) ==
    LET W == RSum(w)
        xm == RDiv(RSum(Times(w, X)), W)
        ym == RDiv(RSum(Times(w, yk)), W)
        sxy == RSum(Arr([i \in 1..Len(X) |->
                        RMul(w[i], RMul(RSub(X[i], xm), RSub(yk[i], ym)))]))
        sxx == RSum(Arr([i \in 1..Len(X) |->
                        RMul(w[i], RMul(RSub(X[i], xm), RSub(X[i], xm)))]))
        coef == RDiv(sxy, RAdd(sxx, RInt(RidgeAlpha)))
    IN  [coef |-> coef, intercept |-> RSub(ym, RMul(coef, xm))]

Column(Y, k) == Arr([i \in 1..Len(Y) |-> Y[i][k]])

ridge_fit(X, Y, w) ==
    LET c1 == ridge_column(X, Column(Y, 1), w)
        c2 == ridge_column(X, Column(Y, 2), w)
    IN  [coef_ |-> <<<<c1.coef>>, <<c2.coef>>>>,
         intercept_ |-> <<c1.intercept, c2.intercept>>]

(***************************************************************************)
(* clime/explainer/BLIMEY.py                                               *)
(***************************************************************************)
NoData == [present |-> FALSE, X |-> <<>>, y |-> <<>>, has_y |-> FALSE]
NoCov == [given |-> FALSE, val |-> Zero]
NoModel == [coef_ |-> <<<<Zero>>, <<Zero>>>>, intercept_ |-> <<Zero, Zero>>]

\* _get_local_sampling_cov with the reference data ahead of the argument.
_get_local_sampling_cov_data_first(a) ==
    IF a.data.present THEN np_cov(a.data.X)
    ELSE IF a.sampling_cov.given THEN a.sampling_cov.val
    ELSE np_eye

_get_local_sampling_cov(a) ==
    IF ~a.sampling_cov.given
    THEN IF ~a.data.present THEN np_eye ELSE np_cov(a.data.X)
    ELSE a.sampling_cov.val

_sample_locally(bb, a, state) ==
    LET cov == _get_local_sampling_cov(a)
        X == multivariate_normal(state, a.query_point, cov, a.samples)
    IN  [cov |-> cov, X |-> X, y |-> bb_predict(bb, X)]

\* rebalanced with the flag ignored.
rebalanced_always(a, sd) == balance_oversample(sd)

\* line 84-85: the instance's sampled_data is rebound to the oversampled data
rebalanced(a, sd) ==
    IF a.rebalance_sampled_data THEN balance_oversample(sd) ELSE sd

\* np.dot(np.round(p(y)), class_weights.T)
instance_class_imbalance_weights(p, class_weights) ==
    Arr([i \in 1..Len(p) |->
        RAdd(RMul(RInt(np_round(p[i][1])), class_weights[1]),
             RMul(RInt(np_round(p[i][2])), class_weights[2]))])

\* fit_weights with the second class weighting as an elif of the first.
fit_weights_elif(a, sd, p) ==
    LET w0 == IF a.weight_locally
              THEN weights_based_on_distance(a.query_point, sd.X)
              ELSE Ones(Len(sd.X))
    IN  IF a.class_weight_data
        THEN Times(w0, instance_class_imbalance_weights(
                           p, weight_based_on_class_imbalance(a.data)))
        ELSE IF a.class_weight_sampled
        THEN Times(w0, instance_class_imbalance_weights(
                           p, weight_based_on_class_imbalance(sd)))
        ELSE w0

\* lines 89-107: the sample_weight handed to Ridge.fit
fit_weights(a, sd, p) ==
    LET w0 == IF a.weight_locally
              THEN weights_based_on_distance(a.query_point, sd.X)
              ELSE Ones(Len(sd.X))
        w1 == IF a.class_weight_data
              THEN Times(w0, instance_class_imbalance_weights(
                                 p, weight_based_on_class_imbalance(a.data)))
              ELSE w0
        w2 == IF a.class_weight_sampled
              THEN Times(w1, instance_class_imbalance_weights(
                                 p, weight_based_on_class_imbalance(sd)))
              ELSE w1
    IN  w2

\* What makes the training raise: class weights of a dataset that is absent
\* or has not both classes (no dot product with the two columns), and
\* weights that sum to zero (no weighted mean to centre on).
train_raises(a, sd, p) ==
    \/ a.class_weight_data
       /\ (~a.data.present \/ Len(weight_based_on_class_imbalance(a.data)) # 2)
    \/ a.class_weight_sampled /\ Len(weight_based_on_class_imbalance(sd)) # 2
    \/ RSum(fit_weights(a, sd, p)) = Zero

_train_surrogate(bb, a, sampled) ==
    LET sd == rebalanced(a, sampled)
        p == bb_predict_proba(bb, sd.X)
    IN  IF train_raises(a, sd, p)
        THEN [built |-> "raised", sampled_data |-> [X |-> sd.X, y |-> sd.y],
              sample_weight |-> <<>>, surrogate_model |-> NoModel]
        ELSE [built |-> "ok", sampled_data |-> [X |-> sd.X, y |-> sd.y],
              sample_weight |-> fit_weights(a, sd, p),
              surrogate_model |-> ridge_fit(AsFloat(sd.X), p, fit_weights(a, sd, p))]

\* __init__: sample, then train.  The record keeps, besides the instance's
\* fields, the covariance that was sampled with and the neighbourhood as
\* _sample_locally left it.
bLIMEy(bb, a, state) ==
    LET s == _sample_locally(bb, a, state)
        t == _train_surrogate(bb, a, [X |-> s.X, y |-> s.y])
    IN  [built |-> t.built,
         cov |-> s.cov,
         drawn |-> [X |-> s.X, y |-> s.y],
         sampled_data |-> t.sampled_data,
         sample_weight |-> t.sample_weight,
         surrogate_model |-> t.surrogate_model]

\* get_explanation with the other row of coef_.
get_explanation_other_row(model) == model.coef_[2]

\* coef_[0, :], the first row (rows count from 1 here)
get_explanation(model) == model.coef_[1]

(***************************************************************************)
(* clime/evaluation/faithfulness.py                                        *)
(***************************************************************************)
_get_preds(expl, bb, d) ==
    LET bb_preds == bb_predict(bb, d.X)
        expl_preds == predict(expl, AsFloat(d.X))
    IN  Arr([i \in 1..Len(d.X) |-> IF bb_preds[i] = expl_preds[i] THEN One ELSE Zero])

\* weights = y.copy() keeps y's integer dtype, so each class weight stored
\* into it is truncated to an integer; a label with no entry in weightings
\* keeps its own value.
Truncate(r) == RInt(r[1] \div r[2])

\* _get_class_weights with np.zeros for the missing labels.
_get_class_weights_zeros(d) ==
    IF ~d.has_y THEN Arr([i \in 1..Len(d.X) |-> Zero])
    ELSE LET weightings == weight_based_on_class_imbalance(d)
         IN  Arr([i \in 1..Len(d.y) |->
                 IF d.y[i] + 1 <= Len(weightings)
                 THEN Truncate(weightings[d.y[i] + 1])
                 ELSE RInt(d.y[i])])

_get_class_weights(d) ==
    IF ~d.has_y THEN Ones(Len(d.X))
    ELSE LET weightings == weight_based_on_class_imbalance(d)
         IN  Arr([i \in 1..Len(d.y) |->
                 IF d.y[i] + 1 <= Len(weightings)
                 THEN Truncate(weightings[d.y[i] + 1])
                 ELSE RInt(d.y[i])])

_get_class_weights_warns(d) == ~d.has_y

fidelity(expl, bb, d) ==
    LET same_preds == _get_preds(expl, bb, d)
    IN  Quotient(RSum(same_preds), RInt(Len(same_preds)), Len(same_preds))

\* local_fidelity with the numerator left unweighted.
local_fidelity_unweighted_sum(expl, bb, d, query_point) ==
    LET same_preds == _get_preds(expl, bb, d)
        weights == weights_based_on_distance(query_point, d.X)
    IN  Quotient(RSum(same_preds), RSum(weights), Len(weights))

local_fidelity(expl, bb, d, query_point) ==
    LET same_preds == _get_preds(expl, bb, d)
        weights == weights_based_on_distance(query_point, d.X)
    IN  Quotient(RSum(Times(same_preds, weights)), RSum(weights), Len(weights))

bal_fidelity(expl, bb, d) ==
    LET same_preds == _get_preds(expl, bb, d)
        weights == _get_class_weights(d)
    IN  Quotient(RSum(Times(same_preds, weights)), RSum(weights), Len(weights))

local_and_bal_fidelity(expl, bb, d, query_point) ==
    LET same_preds == _get_preds(expl, bb, d)
        weights == Times(weights_based_on_distance(query_point, d.X),
                         _get_class_weights(d))
    IN  Quotient(RSum(Times(same_preds, weights)), RSum(weights), Len(weights))

(***************************************************************************)
(* SpecFid: one evaluation run.  The inputs are fixed at the start and     *)
(* each metric of AVAILABLE_EVALUATION_METRICS is called on them, in the   *)
(* order of the module's own script (fidelity, local, balanced, both).     *)
(***************************************************************************)
Metrics == {"fidelity", "local_fidelity", "bal_fidelity", "local_and_bal_fidelity"}

NotCalled == [called |-> FALSE, kind |-> "none", val |-> Zero, warned |-> FALSE]
Returned(r, w) == [called |-> TRUE, kind |-> r.kind, val |-> r.val, warned |-> w]

RECURSIVE SeqsUpTo(_, _)
SeqsUpTo(S, n) ==
    IF n = 0 THEN {<<>>}
    ELSE LET shorter == SeqsUpTo(S, n - 1)
         IN  shorter \cup {Append(s, e) : s \in {t \in shorter : Len(t) = n - 1}, e \in S}

Datasets ==
    {[X |-> Arr([i \in 1..Len(rows) |-> rows[i][1]]),
      y |-> Arr([i \in 1..Len(rows) |-> rows[i][2]]),
      has_y |-> TRUE] : rows \in SeqsUpTo(FeatureGrid \X {0, 1}, MaxRows)}
    \cup {[X |-> xs, y |-> <<>>, has_y |-> FALSE] : xs \in SeqsUpTo(FeatureGrid, MaxRows)}

LinearModel(c1, b1) ==
    [coef_ |-> <<<<RNeg(c1)>>, <<c1>>>>, intercept_ |-> <<RSub(One, b1), b1>>]

Surrogates ==
    {LinearModel(<<1, 2>>, <<-1, 4>>), LinearModel(<<-1, 2>>, One), LinearModel(Zero, Half)}

NoExpl ==
    [built |-> "no", cov |-> Zero, drawn |-> [X |-> <<>>, y |-> <<>>],
     sampled_data |-> [X |-> <<>>, y |-> <<>>], sample_weight |-> <<>>,
     surrogate_model |-> NoModel]

NoCall == [op |-> "none", X |-> <<>>, labels |-> <<>>, explanation |-> <<>>]

NoArgs ==
    [query_point |-> 0, data |-> NoData, sampling_cov |-> NoCov, samples |-> 0,
     class_weight_data |-> FALSE, class_weight_sampled |-> FALSE,
     weight_locally |-> FALSE, rebalance_sampled_data |-> FALSE]

FidIdle ==
    /\ surrogate = NoModel
    /\ data = NoData
    /\ eval_query_point = 0
    /\ score = [m \in Metrics |-> NotCalled]

ExplIdle ==
    /\ np_random_state = 0
    /\ args = NoArgs
    /\ lime = NoExpl
    /\ runs = <<>>
    /\ out = NoCall

FidInit ==
    /\ black_box_model \in BlackBoxThresholds
    /\ surrogate \in Surrogates
    /\ data \in Datasets
    /\ eval_query_point \in QueryPoints
    /\ score = [m \in Metrics |-> NotCalled]
    /\ ExplIdle

CallFidelity ==
    /\ ~score["fidelity"].called
    /\ score' = [score EXCEPT !["fidelity"] =
                    Returned(fidelity(surrogate, black_box_model, data), FALSE)]
    /\ UNCHANGED <<black_box_model, surrogate, data, eval_query_point, expl_vars>>

CallLocalFidelity ==
    /\ score["fidelity"].called
    /\ ~score["local_fidelity"].called
    /\ score' = [score EXCEPT !["local_fidelity"] =
                    Returned(local_fidelity(surrogate, black_box_model, data,
                                            eval_query_point), FALSE)]
    /\ UNCHANGED <<black_box_model, surrogate, data, eval_query_point, expl_vars>>

CallBalFidelity ==
    /\ score["local_fidelity"].called
    /\ ~score["bal_fidelity"].called
    /\ score' = [score EXCEPT !["bal_fidelity"] =
                    Returned(bal_fidelity(surrogate, black_box_model, data),
                             _get_class_weights_warns(data))]
    /\ UNCHANGED <<black_box_model, surrogate, data, eval_query_point, expl_vars>>

CallLocalAndBalFidelity ==
    /\ score["bal_fidelity"].called
    /\ ~score["local_and_bal_fidelity"].called
    /\ score' = [score EXCEPT !["local_and_bal_fidelity"] =
                    Returned(local_and_bal_fidelity(surrogate, black_box_model, data,
                                                    eval_query_point),
                             _get_class_weights_warns(data))]
    /\ UNCHANGED <<black_box_model, surrogate, data, eval_query_point, expl_vars>>

FidNext ==
    \/ CallFidelity
    \/ CallLocalFidelity
    \/ CallBalFidelity
    \/ CallLocalAndBalFidelity

SpecFid == FidInit /\ [][FidNext]_vars
(***************************************************************************)
(* Spec: one process.  It is given a black box and the arguments of        *)
(* bLIMEy(...), builds the explainer (again with the same arguments, up to *)
(* MaxConstructions times) and calls the instance built last.              *)
(***************************************************************************)
ReferenceData ==
    {NoData,
     [present |-> TRUE, X |-> <<0, 1>>, y |-> <<0, 1>>, has_y |-> TRUE],
     [present |-> TRUE, X |-> <<0, 2, 2>>, y |-> <<0, 1, 1>>, has_y |-> TRUE]}

SamplingCovs == {NoCov, [given |-> TRUE, val |-> <<2, 1>>]}

PredictInputs ==
    {<<Half>>, <<Zero>>, <<One>>, <<RInt(5)>>, <<RInt(-4)>>, <<Half, RInt(5)>>}

Arguments ==
    [query_point : QueryPoints,
     data : ReferenceData,
     sampling_cov : SamplingCovs,
     samples : 2..MaxSamples,
     class_weight_data : BOOLEAN,
     class_weight_sampled : BOOLEAN,
     weight_locally : BOOLEAN,
     rebalance_sampled_data : BOOLEAN]

Init ==
    /\ black_box_model = 1
    /\ np_random_state \in 0..MaxSeed
    /\ args \in Arguments
    /\ lime = NoExpl
    /\ runs = <<>>
    /\ out = NoCall
    /\ FidIdle

Construct ==
    /\ Len(runs) < MaxConstructions
    /\ out = NoCall
    /\ LET e == bLIMEy(black_box_model, args, np_random_state)
       IN  /\ lime' = e
           /\ runs' = Append(runs, [built |-> e.built, X |-> e.drawn.X,
                                    explanation |-> get_explanation(e.surrogate_model)])
    /\ np_random_state' = RngAfter(np_random_state, args.samples)
    /\ UNCHANGED <<black_box_model, args, out, fid_vars>>

GetExplanation ==
    /\ lime.built = "ok"
    /\ out = NoCall
    /\ out' = [op |-> "get_explanation", X |-> <<>>, labels |-> <<>>,
               explanation |-> get_explanation(lime.surrogate_model)]
    /\ UNCHANGED <<np_random_state, args, lime, runs, fid_vars>>

Predict ==
    /\ lime.built = "ok"
    /\ out = NoCall
    /\ \E X \in PredictInputs :
          out' = [op |-> "predict", X |-> X, labels |-> predict(lime.surrogate_model, X),
                  explanation |-> <<>>]
    /\ UNCHANGED <<np_random_state, args, lime, runs, fid_vars>>

Next ==
    \/ Construct
    \/ GetExplanation
    \/ Predict

Spec == Init /\ [][Next]_vars

(***************************************************************************)
(* Properties.                                                             *)
(***************************************************************************)
\* The agreement vector and the weights as the specification states them.
Agreement ==
    Arr([i \in 1..Len(data.X) |->
        IF bb_predict(black_box_model, data.X)[i] = predict(surrogate, AsFloat(data.X))[i]
        THEN One ELSE Zero])

\* The weight of class c in dataset d: inversely proportional to its count.
ClassWeightOf(d, c) ==
    Rat(Len(d.y), Cardinality({k \in {0, 1} : Count(d.y, k) > 0}) * Count(d.y, c))

ClassImbalanceWeights ==
    IF data.has_y THEN Arr([i \in 1..Len(data.X) |-> ClassWeightOf(data, data.y[i])])
    ELSE Ones(Len(data.X))

StatedWeights(m) ==
    CASE m = "fidelity" -> Ones(Len(data.X))
      [] m = "local_fidelity" -> weights_based_on_distance(eval_query_point, data.X)
      [] m = "bal_fidelity" -> ClassImbalanceWeights
      [] m = "local_and_bal_fidelity" ->
            Times(weights_based_on_distance(eval_query_point, data.X), ClassImbalanceWeights)

\* The weight vector each metric builds.
UsedWeights(m) ==
    CASE m = "fidelity" -> Ones(Len(data.X))
      [] m = "local_fidelity" -> weights_based_on_distance(eval_query_point, data.X)
      [] m = "bal_fidelity" -> _get_class_weights(data)
      [] m = "local_and_bal_fidelity" ->
            Times(weights_based_on_distance(eval_query_point, data.X),
                  _get_class_weights(data))

\* C1: each of the four metrics returns sum(same*w)/sum(w), w being all
\* ones, the distance weights, the per-row class-imbalance weights, and the
\* product of the last two.
C1_MetricsAreWeightedMeans ==
    \A m \in Metrics :
        (score[m].called /\ RSum(StatedWeights(m)) # Zero) =>
            /\ score[m].kind = "value"
            /\ score[m].val = RDiv(RSum(Times(Agreement, StatedWeights(m))),
                                   RSum(StatedWeights(m)))

\* C2: on a non-empty dataset whose weights are non-negative with a positive
\* total, every metric returns a score in [0, 1].
C2_ScoreInUnitInterval ==
    \A m \in Metrics :
        (/\ score[m].called
         /\ Len(data.X) > 0
         /\ \A i \in 1..Len(data.X) : RLe(Zero, UsedWeights(m)[i])
         /\ RLt(Zero, RSum(UsedWeights(m)))) =>
            /\ score[m].kind = "value"
            /\ RLe(Zero, score[m].val)
            /\ RLe(score[m].val, One)

C2_Witness ==
    /\ score["local_and_bal_fidelity"].called
    /\ data.has_y
    /\ Len(data.X) > 1
    /\ RLt(Zero, RSum(UsedWeights("local_and_bal_fidelity")))
    /\ RLt(Zero, score["local_and_bal_fidelity"].val)
    /\ RLt(score["local_and_bal_fidelity"].val, One)
    /\ RLt(Zero, score["local_fidelity"].val)
    /\ RLt(score["local_fidelity"].val, One)

\* C3: without labels bal_fidelity warns, weighs every row 1 and returns what
\* fidelity returns (so it raises only where fidelity does, on no rows);
\* local_and_bal_fidelity then returns what local_fidelity returns.
C3_NoLabelsFallBackToUniform ==
    ~data.has_y =>
        /\ score["bal_fidelity"].called =>
              /\ score["bal_fidelity"].warned
              /\ _get_class_weights(data) = Ones(Len(data.X))
              /\ score["bal_fidelity"].kind = score["fidelity"].kind
              /\ score["bal_fidelity"].val = score["fidelity"].val
              /\ Len(data.X) > 0 => score["bal_fidelity"].kind = "value"
        /\ score["local_and_bal_fidelity"].called =>
              /\ score["local_and_bal_fidelity"].warned
              /\ score["local_and_bal_fidelity"].kind = score["local_fidelity"].kind
              /\ score["local_and_bal_fidelity"].val = score["local_fidelity"].val

C3_Witness ==
    /\ ~data.has_y
    /\ Len(data.X) > 1
    /\ score["local_and_bal_fidelity"].called
    /\ score["bal_fidelity"].warned
    /\ score["bal_fidelity"].kind = "value"
    /\ RLt(Zero, score["bal_fidelity"].val)
    /\ RLt(score["bal_fidelity"].val, One)
    /\ score["local_and_bal_fidelity"].kind = "value"
    /\ score["local_and_bal_fidelity"].val # score["bal_fidelity"].val

\* C4: a metric called on no rows, or on weights that sum to zero, raises an
\* ArithmeticError, and no call returns nan or inf.
C4_ZeroWeightRaisesArithmeticError ==
    \A m \in Metrics :
        score[m].called =>
            /\ score[m].kind \notin {"nan", "inf"}
            /\ (Len(data.X) = 0 \/ RSum(UsedWeights(m)) = Zero) =>
                  score[m].kind \in ArithmeticErrors

\* The regression the instance was trained on.
TrainedOn(k) ==
    ridge_column(AsFloat(lime.sampled_data.X),
                 Column(bb_predict_proba(black_box_model, lime.sampled_data.X), k),
                 lime.sample_weight)

\* C5 as stated: get_explanation() returns the coefficient row of the class-1
\* probability column.
C5_ExplanationIsClass1Row ==
    out.op = "get_explanation" => out.explanation = <<TrainedOn(2).coef>>

\* C5 amended: get_explanation() returns the coefficient row of the class-0
\* probability column, the negation of the class-1 row.
C5_ExplanationIsClass0Row ==
    out.op = "get_explanation" =>
        /\ out.explanation = <<TrainedOn(1).coef>>
        /\ out.explanation = <<RNeg(TrainedOn(2).coef)>>

C5_Witness ==
    /\ out.op = "get_explanation"
    /\ out.explanation[1] # Zero
    /\ RLt(Zero, TrainedOn(2).coef)

\* C6: predict(X) returns one label per row, 0 or 1, and 1 exactly when the
\* class-1 regression output of the row is at least 0.5.
C6_PredictThresholdsAtHalf ==
    out.op = "predict" =>
        /\ Len(out.labels) = Len(out.X)
        /\ \A i \in 1..Len(out.X) :
              LET class1 == RAdd(lime.surrogate_model.intercept_[2],
                                 RMul(lime.surrogate_model.coef_[2][1], out.X[i]))
              IN  /\ out.labels[i] \in {0, 1}
                  /\ out.labels[i] = 1 <=> RLe(Half, class1)

C6_Witness ==
    /\ out.op = "predict"
    /\ Len(out.X) = 2
    /\ RAdd(lime.surrogate_model.intercept_[2],
            RMul(lime.surrogate_model.coef_[2][1], out.X[1])) = Half
    /\ RLt(One, RAdd(lime.surrogate_model.intercept_[2],
                     RMul(lime.surrogate_model.coef_[2][1], out.X[2])))
    /\ out.labels = <<1, 1>>

\* C7: the sampling covariance is the sampling_cov argument if given, else
\* the covariance of the reference data if given, else the identity.
C7_CovarianceResolution ==
    lime.built # "no" =>
        lime.cov = IF args.sampling_cov.given THEN args.sampling_cov.val
                   ELSE IF args.data.present THEN np_cov(args.data.X)
                   ELSE np_eye

C7_Witness ==
    /\ lime.built = "ok"
    /\ args.sampling_cov.given
    /\ args.data.present
    /\ lime.cov = args.sampling_cov.val
    /\ lime.cov # np_cov(args.data.X)
    /\ lime.cov # np_eye

\* C8: two constructions with the same black box and arguments draw the
\* same samples and give the same explanation.
C8_ConstructionIsRepeatable ==
    \A i, j \in 1..Len(runs) :
        (runs[i].built = "ok" /\ runs[j].built = "ok") =>
            /\ runs[i].X = runs[j].X
            /\ runs[i].explanation = runs[j].explanation

C10_NeighbourhoodUnchangedByTraining ==
    lime.built = "ok" =>
        /\ lime.sampled_data.X = lime.drawn.X
        /\ lime.sampled_data.y = lime.drawn.y

\* C10 amended: with rebalance_sampled_data the instance's neighbourhood
\* becomes the oversampled one; without it, features and labels stay as
\* drawn.
C10_NeighbourhoodReboundWhenRebalancing ==
    lime.built = "ok" =>
        IF args.rebalance_sampled_data
        THEN /\ lime.sampled_data.X = balance_oversample(lime.drawn).X
             /\ lime.sampled_data.y = balance_oversample(lime.drawn).y
        ELSE /\ lime.sampled_data.X = lime.drawn.X
             /\ lime.sampled_data.y = lime.drawn.y

C10_Witness ==
    /\ lime.built = "ok"
    /\ args.rebalance_sampled_data
    /\ Len(lime.sampled_data.X) > Len(lime.drawn.X)
====
